---- MODULE Spec2Model ----
(***************************************************************************)
(* Model of gcloud/streaming/util.py: the three stateless helpers          *)
(* type_check, calculate_wait_for_retry and acceptable_mime_type.          *)
(*                                                                         *)
(* Each helper is a pure function.  A behaviour is one call: the initial   *)
(* state holds the arguments the caller passes, the single step applies    *)
(* the function and stores what the call produced (a returned value or a   *)
(* raised exception).                                                      *)
(*                                                                         *)
(* Numbers of calculate_wait_for_retry are fixed-point: the integer n      *)
(* stands for the real n / Scale, so that the quarter of 2^0 and the       *)
(* sampled jitter draws are exact.                                         *)
(* Strings of acceptable_mime_type are sequences of one-character strings. *)
(***************************************************************************)
EXTENDS Integers, Sequences, FiniteSets

VARIABLES
    fn,               \* the helper the caller calls
    pc,               \* "call" before the function body runs, "done" after
    retry_attempt,    \* calculate_wait_for_retry: argument
    max_wait,         \* calculate_wait_for_retry: argument (fixed-point)
    jitter,           \* calculate_wait_for_retry: the value random.uniform drew
    wait_result,      \* calculate_wait_for_retry: returned value (fixed-point)
    accept_patterns,  \* acceptable_mime_type: argument
    mime_type,        \* acceptable_mime_type: argument
    mime_result,      \* acceptable_mime_type: outcome of the call
    arg,              \* type_check: argument
    arg_type,         \* type_check: argument
    msg,              \* type_check: argument
    type_result       \* type_check: outcome of the call

vars == <<fn, pc, retry_attempt, max_wait, jitter, wait_result,
          accept_patterns, mime_type, mime_result,
          arg, arg_type, msg, type_result>>

wait_vars == <<retry_attempt, max_wait, jitter, wait_result>>
mime_vars == <<accept_patterns, mime_type, mime_result>>
type_vars == <<arg, arg_type, msg, type_result>>

(***************************************************************************)
(* Bounds of the explored inputs.                                          *)
(***************************************************************************)
\* retry_attempt ranges over 0..MaxAttempt
MaxAttempt == 10
\* random.uniform is sampled at 2*JitterSteps+1 evenly spaced points,
\* both end points included
JitterSteps == 4
\* max_wait ranges over the fixed-point values in (0, MaxWait]
MaxWait == 60
\* accept_patterns holds at most MaxPatterns entries
MaxPatterns == 3
\* a tuple passed as arg_type holds at most MaxTuple types
MaxTuple == 2

\* fixed-point denominator: a quarter of 2^0 is JitterSteps units
Scale == 4 * JitterSteps
\* the literal 1 of "max(1, ...)"
One == Scale

\* the value of a result variable before the call has run
NotCalled == "not called"

(***************************************************************************)
(* calculate_wait_for_retry                                                *)
(***************************************************************************)
Min(a, b) == IF a <= b THEN a ELSE b
Max(a, b) == IF a >= b THEN a ELSE b

RECURSIVE Pow2(_)
\* 2 ** retry_attempt, in fixed point
Pow2(n) == IF n = 0 THEN Scale ELSE 2 * Pow2(n - 1)

\* a plausible slip: wait_time / 2.0
MaxJitterHalf(wait_time) == wait_time \div 2
\* max_jitter = wait_time / 4.0
MaxJitter(wait_time) == wait_time \div 4

\* random.uniform(lo, hi): any value of [lo, hi]; sampled at evenly spaced
\* points, the end points among them
Uniform(lo, hi) ==
    { lo + ((hi - lo) * k) \div (2 * JitterSteps) : k \in 0..(2 * JitterSteps) }

\* a plausible slip: the lower clamp forgotten
ClampNoFloor(wait_time, bound) == Min(wait_time, bound)
\* a plausible slip: the upper clamp forgotten
ClampNoCeil(wait_time, bound) == Max(One, wait_time)
\* max(1, min(wait_time, max_wait))
Clamp(wait_time, bound) == Max(One, Min(wait_time, bound))

InitWait ==
    /\ fn = "calculate_wait_for_retry"
    /\ pc = "call"
    /\ retry_attempt \in 0..MaxAttempt
    /\ max_wait \in 1..(MaxWait * Scale)
    /\ jitter = NotCalled
    /\ wait_result = NotCalled
    /\ accept_patterns = <<>>
    /\ mime_type = <<>>
    /\ mime_result = NotCalled
    /\ arg = NotCalled
    /\ arg_type = NotCalled
    /\ msg = NotCalled
    /\ type_result = NotCalled

CalculateWaitForRetry ==
    /\ fn = "calculate_wait_for_retry"
    /\ pc = "call"
    /\ LET wait_time == Pow2(retry_attempt)
           max_jitter == MaxJitter(wait_time)
       IN \E j \in Uniform(-max_jitter, max_jitter) :
            /\ jitter' = j
            /\ wait_result' = Clamp(wait_time + j, max_wait)
    /\ pc' = "done"
    /\ UNCHANGED <<fn, retry_attempt, max_wait, mime_vars, type_vars>>

NextWait == CalculateWaitForRetry

SpecWait == InitWait /\ [][NextWait]_vars

(***************************************************************************)
(* Claims about calculate_wait_for_retry, checked under SpecWait.          *)
(***************************************************************************)

\* C1 (as stated): for every retry_attempt >= 0, every max_wait > 0 (those
\* strictly between 0 and 1 included) and every jitter draw, the returned
\* value v satisfies 1 <= v <= max_wait.
C1_BoundsForEveryPositiveMaxWait ==
    pc = "done" => (One <= wait_result /\ wait_result <= max_wait)

\* C1 (amended): the returned value v is always >= 1; it is <= max_wait
\* whenever max_wait >= 1; for 0 < max_wait < 1 it is exactly 1, which
\* exceeds max_wait.
C1_BoundsWhenMaxWaitAtLeastOne ==
    pc = "done" =>
        /\ One <= wait_result
        /\ (max_wait >= One => wait_result <= max_wait)
        /\ (max_wait < One => wait_result = One)

\* C1 witness: a call with max_wait >= 1 whose negative jitter took the
\* sum below 1, so that the lower clamp acted.
C1_Witness ==
    /\ pc = "done"
    /\ max_wait >= One
    /\ Pow2(retry_attempt) + jitter < One
    /\ wait_result = One

\* C6: when 0.75 * 2^retry_attempt >= max_wait and max_wait >= 1, the
\* returned value is exactly max_wait for every jitter draw.
C6_ClampSaturation ==
    (pc = "done" /\ max_wait >= One /\ 3 * Pow2(retry_attempt) >= 4 * max_wait)
        => wait_result = max_wait

\* C6 witness: retry_attempt = 10, max_wait = 60, the most negative jitter.
C6_Witness ==
    /\ pc = "done"
    /\ retry_attempt = 10
    /\ max_wait = 60 * Scale
    /\ 4 * jitter = -Pow2(retry_attempt)
    /\ wait_result = max_wait

\* C10: the jitter lies in [-2^a/4, +2^a/4]; for retry_attempt >= 1 with
\* 1.25 * 2^a <= max_wait the returned value is the unclamped sum and lies
\* in [0.75 * 2^a, 1.25 * 2^a]; for retry_attempt = 0 it lies in [1, 1.25].
C10_JitterWindow ==
    pc = "done" =>
        LET base == Pow2(retry_attempt) IN
        /\ -base <= 4 * jitter
        /\ 4 * jitter <= base
        /\ (retry_attempt >= 1 /\ 5 * base <= 4 * max_wait) =>
              /\ wait_result = base + jitter
              /\ 3 * base <= 4 * wait_result
              /\ 4 * wait_result <= 5 * base
        /\ retry_attempt = 0 =>
              /\ One <= wait_result
              /\ 4 * wait_result <= 5 * One

\* C10 witness: an unclamped call that returned the lowest value of the
\* window, 0.75 * 2^retry_attempt.
C10_Witness ==
    /\ pc = "done"
    /\ retry_attempt >= 1
    /\ 5 * Pow2(retry_attempt) <= 4 * max_wait
    /\ 4 * wait_result = 3 * Pow2(retry_attempt)

(***************************************************************************)
(* acceptable_mime_type                                                    *)
(***************************************************************************)
\* the strings the calls are made with, as sequences of characters
Str_text_plain       == <<"t", "/", "p">>                \* "t/p"
Str_Text_plain       == <<"T", "/", "p">>                \* "T/p"
Str_text_star        == <<"t", "/", "*">>                \* "t/*"
Str_star_star        == <<"*", "/", "*">>                \* "*/*"
Str_star_plain       == <<"*", "/", "p">>                \* "*/p"
Str_app_json         == <<"a", "/", "j">>                \* "a/j"
Str_text             == <<"t">>                          \* "t"
Str_star             == <<"*">>                          \* "*"
Str_text_plain_extra == <<"t", "/", "p", "/", "x">>      \* "t/p/x"
Str_text_plain_q     == <<"t", "/", "p", ";", "q">>      \* "t/p;q"
Str_star_q           == <<"*", ";", "q">>                \* "*;q"
Str_empty            == <<>>                             \* ""

StringPool ==
    { Str_text_plain, Str_Text_plain, Str_text_star, Str_star_star,
      Str_star_plain, Str_app_json, Str_text, Str_star,
      Str_text_plain_extra, Str_text_plain_q, Str_star_q, Str_empty }

\* the lists of at most n strings of the pool
ListsUpTo(n) == UNION { [1..k -> StringPool] : k \in 0..n }

\* "c in s" for a one-character c
Contains(c, s) == \E i \in 1..Len(s) : s[i] = c

RECURSIVE Split(_, _)
\* s.split(sep) for a one-character sep: always at least one part
Split(s, sep) ==
    IF ~Contains(sep, s)
    THEN <<s>>
    ELSE LET i == CHOOSE i \in 1..Len(s) :
                      s[i] = sep /\ \A j \in 1..(i - 1) : s[j] # sep
         IN <<SubSeq(s, 1, i - 1)>> \o Split(SubSeq(s, i + 1, Len(s)), sep)

\* zip(a, b): pairs up to the shorter of the two
Zip(a, b) == [i \in 1..Min(Len(a), Len(b)) |-> <<a[i], b[i]>>]

RECURSIVE Join(_, _)
\* sep.join(list)
Join(sep, list) ==
    IF list = <<>> THEN <<>>
    ELSE IF Len(list) = 1 THEN list[1]
    ELSE list[1] \o sep \o Join(sep, Tail(list))

\* a plausible slip: the wildcard honoured on either side
MatchWildcardEitherSide(pattern, mime) ==
    LET pairs == Zip(Split(pattern, "/"), Split(mime, "/"))
    IN \A i \in 1..Len(pairs) :
         \/ pairs[i][1] \in {<<"*">>, pairs[i][2]}
         \/ pairs[i][2] = <<"*">>
\* a plausible slip: patterns and candidate must have the same number of parts
MatchSameLength(pattern, mime) ==
    LET pp == Split(pattern, "/")
        mm == Split(mime, "/")
        pairs == Zip(pp, mm)
    IN /\ Len(pp) = Len(mm)
       /\ \A i \in 1..Len(pairs) : pairs[i][1] \in {<<"*">>, pairs[i][2]}
\* _match: all(accept in ('*', provided) for accept, provided in zip(...))
Match(pattern, mime) ==
    LET pairs == Zip(Split(pattern, "/"), Split(mime, "/"))
    IN \A i \in 1..Len(pairs) : pairs[i][1] \in {<<"*">>, pairs[i][2]}

\* a plausible slip: only the first offending pattern is reported
UnsupportedFirstOnly(patterns) ==
    LET all == SelectSeq(patterns, LAMBDA p : Contains(";", p))
    IN IF all = <<>> THEN <<>> ELSE <<all[1]>>
\* a plausible slip: patterns without '/' are reported as unsupported too
UnsupportedOrNoSlash(patterns) ==
    SelectSeq(patterns, LAMBDA p : Contains(";", p) \/ ~Contains("/", p))
\* unsupported_patterns = [p for p in accept_patterns if ';' in p]
UnsupportedPatterns(patterns) ==
    SelectSeq(patterns, LAMBDA p : Contains(";", p))

\* a plausible slip: only the first pattern is tried
AnyMatchFirstOnly(patterns, mime) ==
    patterns # <<>> /\ Match(patterns[1], mime)
\* any(_match(pattern, mime_type) for pattern in accept_patterns)
AnyMatch(patterns, mime) ==
    \E i \in 1..Len(patterns) : Match(patterns[i], mime)

Returned(value) == [kind |-> "return", value |-> value]
Raised(exc, message) == [kind |-> "raise", exc |-> exc, message |-> message]

\* a plausible slip: the two validations in the other order
acceptable_mime_type_patterns_first(patterns, mime) ==
    LET unsupported_patterns == UnsupportedPatterns(patterns) IN
    IF unsupported_patterns # <<>>
    THEN Raised("ConfigurationValueError",
                <<"MIME patterns with parameter unsupported: ", "\"">>
                    \o Join(<<",", " ">>, unsupported_patterns) \o <<"\"">>)
    ELSE IF ~Contains("/", mime)
    THEN Raised("InvalidUserInputError",
                <<"Invalid MIME type: ", "\"">> \o mime \o <<"\"">>)
    ELSE Returned(AnyMatch(patterns, mime))
\* the body of acceptable_mime_type: what the call returns or raises
acceptable_mime_type(patterns, mime) ==
    IF ~Contains("/", mime)
    THEN Raised("InvalidUserInputError",
                <<"Invalid MIME type: ", "\"">> \o mime \o <<"\"">>)
    ELSE LET unsupported_patterns == UnsupportedPatterns(patterns) IN
         IF unsupported_patterns # <<>>
         THEN Raised("ConfigurationValueError",
                     <<"MIME patterns with parameter unsupported: ", "\"">>
                         \o Join(<<",", " ">>, unsupported_patterns) \o <<"\"">>)
         ELSE Returned(AnyMatch(patterns, mime))

InitMime ==
    /\ fn = "acceptable_mime_type"
    /\ pc = "call"
    /\ retry_attempt = NotCalled
    /\ max_wait = NotCalled
    /\ jitter = NotCalled
    /\ wait_result = NotCalled
    /\ accept_patterns \in ListsUpTo(MaxPatterns)
    /\ mime_type \in StringPool
    /\ mime_result = NotCalled
    /\ arg = NotCalled
    /\ arg_type = NotCalled
    /\ msg = NotCalled
    /\ type_result = NotCalled

AcceptableMimeType ==
    /\ fn = "acceptable_mime_type"
    /\ pc = "call"
    /\ mime_result' = acceptable_mime_type(accept_patterns, mime_type)
    /\ pc' = "done"
    /\ UNCHANGED <<fn, accept_patterns, mime_type, wait_vars, type_vars>>

NextMime == AcceptableMimeType

SpecMime == InitMime /\ [][NextMime]_vars

(***************************************************************************)
(* Claims about acceptable_mime_type, checked under SpecMime.              *)
(* The claims speak of the '/'-separated components of a string; they are  *)
(* read off the characters directly, by the positions of the separators.   *)
(***************************************************************************)
SlashPositions(s) == { i \in 1..Len(s) : s[i] = "/" }
NumParts(s) == Cardinality(SlashPositions(s)) + 1
\* position of the k-th '/', with 0 before the string and Len+1 after it
SlashAt(s, k) ==
    IF k = 0 THEN 0
    ELSE IF k > Cardinality(SlashPositions(s)) THEN Len(s) + 1
    ELSE CHOOSE i \in SlashPositions(s) :
             Cardinality({ j \in SlashPositions(s) : j < i }) = k - 1
\* the k-th component
Part(s, k) == SubSeq(s, SlashAt(s, k - 1) + 1, SlashAt(s, k) - 1)
ComparedPositions(pattern, mime) == 1..Min(NumParts(pattern), NumParts(mime))
\* the pattern component is the literal '*' or equals the candidate's
PatternAccepts(pattern, mime) ==
    \A k \in ComparedPositions(pattern, mime) :
        Part(pattern, k) = <<"*">> \/ Part(pattern, k) = Part(mime, k)

HasSemicolon(p) == \E i \in 1..Len(p) : p[i] = ";"
HasSlash(p) == \E i \in 1..Len(p) : p[i] = "/"
SomePatternHasSemicolon ==
    \E i \in 1..Len(accept_patterns) : HasSemicolon(accept_patterns[i])
NoValidationError == HasSlash(mime_type) /\ ~SomePatternHasSemicolon

\* C2: when neither validation error applies the call returns True iff some
\* pattern matches, a pattern matching iff at every compared position its
\* component is '*' or equals the candidate's; an empty list gives False,
\* '*/*' matches every two-part candidate, and a '*' component of the
\* candidate is matched only by a '*' pattern component.
C2_ReturnsTrueIffSomePatternMatches ==
    (pc = "done" /\ NoValidationError) =>
        /\ mime_result.kind = "return"
        /\ mime_result.value =
              (\E i \in 1..Len(accept_patterns) :
                   PatternAccepts(accept_patterns[i], mime_type))
        /\ accept_patterns = <<>> => mime_result.value = FALSE
        /\ ( /\ NumParts(mime_type) = 2
             /\ \E i \in 1..Len(accept_patterns) :
                    accept_patterns[i] = Str_star_star )
              => mime_result.value = TRUE
        /\ ( \A i \in 1..Len(accept_patterns) :
                 \E k \in ComparedPositions(accept_patterns[i], mime_type) :
                     /\ Part(mime_type, k) = <<"*">>
                     /\ Part(accept_patterns[i], k) # <<"*">> )
              => mime_result.value = FALSE

\* C2 witness: the candidate "*/p" is refused by the pattern "t/p", whose
\* first component is not the wildcard.
C2_Witness ==
    /\ pc = "done"
    /\ mime_type = Str_star_plain
    /\ accept_patterns = <<Str_text_plain>>
    /\ mime_result = Returned(FALSE)

\* C3: a mime_type without '/' fails with InvalidUserInputError whatever
\* accept_patterns holds, patterns with ';' included; a mime_type with '/'
\* and some pattern with ';' fails with ConfigurationValueError; a failed
\* call carries no boolean result.
C3_ValidationOrder ==
    pc = "done" =>
        /\ ~HasSlash(mime_type) =>
              /\ mime_result.kind = "raise"
              /\ mime_result.exc = "InvalidUserInputError"
        /\ (HasSlash(mime_type) /\ SomePatternHasSemicolon) =>
              /\ mime_result.kind = "raise"
              /\ mime_result.exc = "ConfigurationValueError"
        /\ mime_result.kind = "raise" => "value" \notin DOMAIN mime_result

\* C3 witness: both validations would fail, and the first one raised.
C3_Witness ==
    /\ pc = "done"
    /\ ~HasSlash(mime_type)
    /\ SomePatternHasSemicolon
    /\ mime_result.kind = "raise"
    /\ mime_result.exc = "InvalidUserInputError"

\* the entries of accept_patterns that contain ';', by their indices
OffendingIndices ==
    { i \in 1..Len(accept_patterns) : HasSemicolon(accept_patterns[i]) }
KthOffendingIndex(k) ==
    CHOOSE i \in OffendingIndices :
        Cardinality({ j \in OffendingIndices : j < i }) = k - 1
OffendingInOrder ==
    [k \in 1..Cardinality(OffendingIndices) |->
        accept_patterns[KthOffendingIndex(k)]]

\* C4: the configuration error's message lists every entry of
\* accept_patterns that contains ';', all of them, in their original order,
\* joined by ', ', and no entry without ';'.
C4_MessageListsEveryOffendingPattern ==
    ( /\ pc = "done"
      /\ mime_result.kind = "raise"
      /\ mime_result.exc = "ConfigurationValueError" )
      => mime_result.message =
            <<"MIME patterns with parameter unsupported: ", "\"">>
                \o Join(<<",", " ">>, OffendingInOrder) \o <<"\"">>

\* C4 witness: two different offending entries around an inoffensive one.
C4_Witness ==
    /\ pc = "done"
    /\ accept_patterns = <<Str_star_q, Str_text_plain, Str_text_plain_q>>
    /\ mime_result.kind = "raise"
    /\ mime_result.exc = "ConfigurationValueError"

\* C5 (as stated): a candidate without '/', a pattern containing ';' and
\* also any pattern without '/' make the call end in an error rather than
\* return a boolean.
C5_PatternWithoutSlashRejected ==
    ( /\ pc = "done"
      /\ \/ ~HasSlash(mime_type)
         \/ SomePatternHasSemicolon
         \/ \E i \in 1..Len(accept_patterns) : ~HasSlash(accept_patterns[i]) )
      => mime_result.kind = "raise"

\* C5 (amended): the call ends in an error exactly when the candidate has
\* no '/' or some pattern contains ';'; a pattern without '/' is not
\* rejected, the call then returns a boolean.
C5_RejectedIffCandidateWithoutSlashOrSemicolon ==
    pc = "done" =>
        /\ mime_result.kind = "raise"
              <=> (~HasSlash(mime_type) \/ SomePatternHasSemicolon)
        /\ mime_result.kind = "return" => mime_result.value \in BOOLEAN

\* C5 witness: a call with a pattern without '/' that returned a boolean.
C5_Witness ==
    /\ pc = "done"
    /\ \E i \in 1..Len(accept_patterns) : ~HasSlash(accept_patterns[i])
    /\ mime_result.kind = "return"

\* what C7 compares: the boolean returned or the kind of error raised
Outcome(r) ==
    IF r.kind = "return"
    THEN [kind |-> "return", what |-> IF r.value THEN "True" ELSE "False"]
    ELSE [kind |-> "raise", what |-> r.exc]
Elements(list) == { list[i] : i \in 1..Len(list) }
RECURSIVE ListOf(_)
\* the elements of a set, once each, in one fixed order
ListOf(set) ==
    IF set = {} THEN <<>>
    ELSE LET x == CHOOSE x \in set : TRUE
         IN <<x>> \o ListOf(set \ {x})

\* C7: the outcome (boolean or error kind) is the same for every list of
\* patterns with the same set of elements, whatever the order and the
\* repetitions.  Every list is compared with the one list that holds the
\* elements of its set once each in a fixed order; two lists with the same
\* set are compared with the same list, and so agree with each other.
C7_OutcomeDependsOnPatternSetOnly ==
    pc = "done" =>
        Outcome(acceptable_mime_type(ListOf(Elements(accept_patterns)), mime_type))
            = Outcome(mime_result)

\* C7 witness: the first pattern does not match and a later one does.
C7_Witness ==
    /\ pc = "done"
    /\ Len(accept_patterns) >= 2
    /\ NoValidationError
    /\ ~PatternAccepts(accept_patterns[1], mime_type)
    /\ mime_result = Returned(TRUE)

\* C9: a pattern with another number of components than the candidate is
\* compared on the overlapping leading positions only; if it matches there
\* the call returns True.
C9_ShortestZip ==
    ( /\ pc = "done"
      /\ NoValidationError
      /\ \E i \in 1..Len(accept_patterns) :
            /\ NumParts(accept_patterns[i]) # NumParts(mime_type)
            /\ PatternAccepts(accept_patterns[i], mime_type) )
      => mime_result = Returned(TRUE)

\* C9 witness: the only pattern has more components than the candidate.
C9_Witness ==
    /\ pc = "done"
    /\ Len(accept_patterns) = 1
    /\ NumParts(accept_patterns[1]) > NumParts(mime_type)
    /\ mime_result = Returned(TRUE)

(***************************************************************************)
(* type_check                                                              *)
(***************************************************************************)
\* Python values: a class, a tuple of classes, a string, None, and the
\* objects passed as arg (each with its class)
Class(name) == [py |-> "type", name |-> name]
TupleOf(items) == [py |-> "tuple", items |-> items]
Str(text) == [py |-> "str", text |-> text]
None == [py |-> "NoneType"]
Object(repr, class) == [py |-> "object", repr |-> repr, class |-> class]

ClassNames == {"object", "int", "bool", "str", "float"}
\* the classes a class derives from, itself included (its __mro__)
Mro(name) ==
    CASE name = "bool" -> {"bool", "int", "object"}
      [] name = "object" -> {"object"}
      [] OTHER -> {name, "object"}

Objects ==
    { Object("1", "int"), Object("True", "bool"), Object("'s'", "str"),
      Object("1.5", "float"), Object("object()", "object") }
ArgTypes ==
    { Class(n) : n \in ClassNames }
        \cup { TupleOf(t) : t \in UNION { [1..k -> ClassNames] : k \in 0..MaxTuple } }
Messages == { None, Str("custom message") }

\* a plausible slip: the class compared for identity, subclasses refused
IsInstanceExactClass(obj, class_or_tuple) ==
    IF class_or_tuple.py = "tuple"
    THEN \E i \in 1..Len(class_or_tuple.items) :
             class_or_tuple.items[i] = obj.class
    ELSE class_or_tuple.name = obj.class
\* the builtin isinstance(obj, class_or_tuple)
IsInstance(obj, class_or_tuple) ==
    IF class_or_tuple.py = "tuple"
    THEN \E i \in 1..Len(class_or_tuple.items) :
             class_or_tuple.items[i] \in Mro(obj.class)
    ELSE class_or_tuple.name \in Mro(obj.class)

\* the body of type_check: what the call returns or raises
type_check(a, a_type, m) ==
    IF ~IsInstance(a, a_type)
    THEN IF m = None
         THEN IF a_type.py = "tuple"
              THEN Raised("TypecheckError",
                          Str(<<"Type of arg is \"", a.class,
                                "\", not one of ", a_type>>))
              ELSE Raised("TypecheckError",
                          Str(<<"Type of arg is \"", a.class,
                                "\", not \"", a_type, "\"">>))
         ELSE Raised("TypecheckError", m)
    ELSE Returned(a)

InitType ==
    /\ fn = "type_check"
    /\ pc = "call"
    /\ retry_attempt = NotCalled
    /\ max_wait = NotCalled
    /\ jitter = NotCalled
    /\ wait_result = NotCalled
    /\ accept_patterns = <<>>
    /\ mime_type = <<>>
    /\ mime_result = NotCalled
    /\ arg \in Objects
    /\ arg_type \in ArgTypes
    /\ msg \in Messages
    /\ type_result = NotCalled

TypeCheck ==
    /\ fn = "type_check"
    /\ pc = "call"
    /\ type_result' = type_check(arg, arg_type, msg)
    /\ pc' = "done"
    /\ UNCHANGED <<fn, arg, arg_type, msg, wait_vars, mime_vars>>

NextType == TypeCheck

SpecType == InitType /\ [][NextType]_vars

(***************************************************************************)
(* Claim about type_check, checked under SpecType.                         *)
(***************************************************************************)
\* the classes arg_type names: itself, or the members of the tuple
NamedClasses(class_or_tuple) ==
    IF class_or_tuple.py = "tuple"
    THEN { class_or_tuple.items[i] : i \in 1..Len(class_or_tuple.items) }
    ELSE { class_or_tuple.name }
ArgIsOfArgType == NamedClasses(arg_type) \cap Mro(arg.class) # {}

\* C8: type_check returns arg itself when arg is an instance of arg_type
\* (of any member when arg_type is a tuple); otherwise it raises
\* TypecheckError and returns nothing, with the caller's msg when msg is not
\* None and a generated message otherwise.
C8_TypeCheckReturnsArgOrRaises ==
    pc = "done" =>
        IF ArgIsOfArgType
        THEN type_result = [kind |-> "return", value |-> arg]
        ELSE /\ type_result.kind = "raise"
             /\ type_result.exc = "TypecheckError"
             /\ "value" \notin DOMAIN type_result
             /\ msg # None => type_result.message = msg
             /\ msg = None =>
                   /\ type_result.message.py = "str"
                   /\ type_result.message.text[1] = "Type of arg is \""
                   /\ type_result.message.text[2] = arg.class

\* C8 witness: arg is an instance of the tuple's second member only, by
\* subclassing, and was returned.
C8_Witness ==
    /\ pc = "done"
    /\ arg = Object("True", "bool")
    /\ arg_type = TupleOf(<<"str", "int">>)
    /\ type_result = Returned(arg)

(***************************************************************************)
(* The three helpers together: the caller calls any one of them.           *)
(***************************************************************************)
Init == InitWait \/ InitMime \/ InitType

Next == CalculateWaitForRetry \/ AcceptableMimeType \/ TypeCheck

Spec == Init /\ [][Next]_vars

====
